---------------------------- MODULE Spec2Model ----------------------------
(***************************************************************************)
(* SafeScroll (ai-safety-auditor): the JSON agent helper of agents.py, the *)
(* audit button handler of app.py's main() and the synthetic data          *)
(* generator of generate_synthetic_data.py.                                *)
(*                                                                         *)
(* Three specifications share the module:                                  *)
(*   SpecAgent  one call of _run_json_agent on every client behaviour      *)
(*   Spec       the dashboard: user selection and the audit click          *)
(*   SpecGen    one run of the generator                                   *)
(***************************************************************************)
EXTENDS Integers, Sequences, FiniteSets, TLC

VARIABLES
    \* ---- _run_json_agent (SpecAgent)
    a_pc,        \* "idle" | "ready" | "returned" | "raised"
    a_outcome,   \* what client.chat.completions.create does in this call
    a_src,       \* how the reply content was built (raw text, or an object embedded in text)
    a_ret,       \* the value _run_json_agent returned
    a_path,      \* the return statement that produced it
    a_requests,  \* completion requests issued by the call
    \* ---- app.py main() (Spec)
    api_key,     \* os.getenv("OPENAI_API_KEY"): "unset", "", a placeholder or a key
    posts,       \* data/posts.csv rows
    interactions,\* data/interactions.csv rows
    selected,    \* selected_user_id of the sidebar selectbox
    pc,          \* "off" | "idle" | the agent the script run is about to call
    res,         \* underage_res, content_res, interaction_res, policy_res, report_res
    log,         \* agent invocations of the current run, in order, with their arguments
    requests,    \* completion requests issued by the current run
    view,        \* "none" | "results" | "config_error" | "exception"
    shown,       \* what each section of the page displays
    \* ---- generate_synthetic_data.py main() (SpecGen)
    g_pc,        \* "idle" | "start" | "users" | "posts" | "done" | "saved" | "loaded" | "exception"
    g_args,      \* --users, --posts-per-user, --interactions, --out-dir, --prefix
    g_users,     \* users DataFrame rows
    g_posts,     \* posts DataFrame rows
    g_inter,     \* interactions DataFrame rows
    g_fs,        \* the CSV files on disk, by path
    g_loaded     \* what the dashboard's load_data() did on those files

agentVars == <<a_pc, a_outcome, a_src, a_ret, a_path, a_requests>>
appVars   == <<api_key, posts, interactions, selected, pc, res, log, requests, view, shown>>
genVars   == <<g_pc, g_args, g_users, g_posts, g_inter, g_fs, g_loaded>>
vars      == <<agentVars, appVars, genVars>>

---------------------------------------------------------------------------
(***************************************************************************)
(* Python / JSON values.  Every value is a record with the same fields so  *)
(* that any two values can be compared; t is the Python type.              *)
(*   n    the number (int) or the truth value (bool: 1 / 0)                *)
(*   s    the text of a str                                                *)
(*   raw  for a str built from reply text or an f-string: the tokens       *)
(*   m    the items of a dict, a function from its keys                    *)
(*   a    the elements of a list                                           *)
(***************************************************************************)
EmptyMap == [k \in {} |-> 0]

None    == [t |-> "null", n |-> 0, s |-> "", raw |-> <<>>, m |-> EmptyMap, a |-> <<>>]
Num(k)  == [t |-> "num",  n |-> k, s |-> "", raw |-> <<>>, m |-> EmptyMap, a |-> <<>>]
Bool(b) == [t |-> "bool", n |-> IF b THEN 1 ELSE 0, s |-> "", raw |-> <<>>, m |-> EmptyMap, a |-> <<>>]
Str(x)  == [t |-> "str",  n |-> 0, s |-> x,  raw |-> <<>>, m |-> EmptyMap, a |-> <<>>]
Text(x, toks) == [t |-> "str", n |-> 0, s |-> x, raw |-> toks, m |-> EmptyMap, a |-> <<>>]
Dict(f) == [t |-> "dict", n |-> 0, s |-> "", raw |-> <<>>, m |-> f, a |-> <<>>]
List(q) == [t |-> "list", n |-> 0, s |-> "", raw |-> <<>>, m |-> EmptyMap, a |-> q]

\* d[key] = v on a dict's items (a repeated key keeps the last value).
Put(f, key, v) == [k \in (DOMAIN f) \cup {key} |-> IF k = key THEN v ELSE f[k]]

IsDict(v) == v.t = "dict"
HasKey(v, key) == IsDict(v) /\ key \in DOMAIN v.m

---------------------------------------------------------------------------
(***************************************************************************)
(* Reply text as a sequence of tokens.  A token is one lexical unit of     *)
(* JSON or one word of other text.                                         *)
(***************************************************************************)
LB    == "{"
RB    == "}"
LSQ   == "["
RSQ   == "]"
COLON == ":"
COMMA == ","
WS    == " "
WORD  == "x"          \* a word that is no JSON token
TNULL == "null"
TTRUE == "true"
TFALSE == "false"
TONE  == "1"
QA    == "\"a\""      \* the string literal "a"
QB    == "\"b\""
QOVERALL  == "\"overall\""
QBULLY    == "\"bullying_risk\""
QHIGH     == "\"high\""
QTITLE    == "\"risk_title\""

StringTokens == {QA, QB, QOVERALL, QBULLY, QHIGH, QTITLE}

\* The str a string literal denotes.
StrOf(tok) ==
    CASE tok = QA -> "a"
      [] tok = QB -> "b"
      [] tok = QOVERALL -> "overall"
      [] tok = QBULLY -> "bullying_risk"
      [] tok = QHIGH -> "high"
      [] tok = QTITLE -> "risk_title"
      [] OTHER -> ""

\* The literal of a str.
QuoteOf(x) ==
    CASE x = "a" -> QA
      [] x = "b" -> QB
      [] x = "overall" -> QOVERALL
      [] x = "bullying_risk" -> QBULLY
      [] x = "high" -> QHIGH
      [] x = "risk_title" -> QTITLE
      [] OTHER -> WORD

\* Keys in the order a dict of the model is iterated (insertion order).
KeyOrder == <<"a", "b", "overall", "bullying_risk", "risk_title">>

---------------------------------------------------------------------------
(***************************************************************************)
(* json.loads on a token sequence: the grammar of Python's json decoder    *)
(* (objects, arrays, strings, 1, true, false, null; white space between tokens;   *)
(* no trailing comma; nothing but white space after the value).            *)
(***************************************************************************)
ParseFail == [ok |-> FALSE, v |-> None, i |-> 0]
ParseOk(v, i) == [ok |-> TRUE, v |-> v, i |-> i]

RECURSIVE SkipWs(_, _)
\* The first position at or after i that holds no white space (Len+1: the end).
SkipWs(s, i) == IF i <= Len(s) /\ s[i] = WS THEN SkipWs(s, i + 1) ELSE i

RECURSIVE ParseValue(_, _)
RECURSIVE ParseMembers(_, _, _)
RECURSIVE ParseElements(_, _, _)

\* scan_once: the value that starts at position i.
ParseValue(s, i) ==
    IF i > Len(s) THEN ParseFail
    ELSE IF s[i] \in StringTokens THEN ParseOk(Str(StrOf(s[i])), i + 1)
    ELSE IF s[i] = TNULL THEN ParseOk(None, i + 1)
    ELSE IF s[i] = TTRUE THEN ParseOk(Bool(TRUE), i + 1)
    ELSE IF s[i] = TFALSE THEN ParseOk(Bool(FALSE), i + 1)
    ELSE IF s[i] = TONE THEN ParseOk(Num(1), i + 1)
    ELSE IF s[i] = LB THEN
        LET j == SkipWs(s, i + 1) IN
        IF j <= Len(s) /\ s[j] = RB THEN ParseOk(Dict(EmptyMap), j + 1)
        ELSE ParseMembers(s, j, EmptyMap)
    ELSE IF s[i] = LSQ THEN
        LET j == SkipWs(s, i + 1) IN
        IF j <= Len(s) /\ s[j] = RSQ THEN ParseOk(List(<<>>), j + 1)
        ELSE ParseElements(s, j, <<>>)
    ELSE ParseFail

\* JSONObject's loop: position i must hold a key; acc are the items so far.
ParseMembers(s, i, acc) ==
    IF i > Len(s) \/ s[i] \notin StringTokens THEN ParseFail
    ELSE
        LET c == SkipWs(s, i + 1) IN
        IF c > Len(s) \/ s[c] # COLON THEN ParseFail
        ELSE
            LET r == ParseValue(s, SkipWs(s, c + 1)) IN
            IF ~r.ok THEN ParseFail
            ELSE
                LET e   == SkipWs(s, r.i)
                    now == Put(acc, StrOf(s[i]), r.v)
                IN  IF e > Len(s) THEN ParseFail
                    ELSE IF s[e] = RB THEN ParseOk(Dict(now), e + 1)
                    ELSE IF s[e] = COMMA THEN ParseMembers(s, SkipWs(s, e + 1), now)
                    ELSE ParseFail

\* JSONArray's loop: position i must hold a value; acc are the elements so far.
ParseElements(s, i, acc) ==
    LET r == ParseValue(s, i) IN
    IF ~r.ok THEN ParseFail
    ELSE
        LET e   == SkipWs(s, r.i)
            now == Append(acc, r.v)
        IN  IF e > Len(s) THEN ParseFail
            ELSE IF s[e] = RSQ THEN ParseOk(List(now), e + 1)
            ELSE IF s[e] = COMMA THEN ParseElements(s, SkipWs(s, e + 1), now)
            ELSE ParseFail

\* json.loads(text): ok is FALSE where it raises.
JsonLoadsText(s) ==
    LET r == ParseValue(s, SkipWs(s, 1)) IN
    IF r.ok /\ SkipWs(s, r.i) = Len(s) + 1 THEN r ELSE ParseFail

\* A reply content: None, or text.
NoContent == [isNone |-> TRUE, toks |-> <<>>]
Content(s) == [isNone |-> FALSE, toks |-> s]

\* json.loads(content); a None content raises TypeError.
JsonLoads(content) == IF content.isNone THEN ParseFail ELSE JsonLoadsText(content.toks)

RECURSIVE RFindFrom(_, _, _)
RFindFrom(s, tok, i) ==
    IF i = 0 THEN 0 ELSE IF s[i] = tok THEN i ELSE RFindFrom(s, tok, i - 1)
\* content.rfind(tok) as a position 1..Len, 0 for Python's -1.
RFind(s, tok) == RFindFrom(s, tok, Len(s))

\* content[idx:]
Suffix(s, idx) == SubSeq(s, idx, Len(s))

---------------------------------------------------------------------------
(***************************************************************************)
(* json.dumps(v) with the default separators ", " and ": ".                *)
(***************************************************************************)
RECURSIVE Dumps(_)
RECURSIVE DumpItems(_, _, _)
RECURSIVE DumpElements(_, _)

Dumps(v) ==
    CASE v.t = "null" -> <<TNULL>>
      [] v.t = "bool" -> IF v.n = 1 THEN <<TTRUE>> ELSE <<TFALSE>>
      [] v.t = "num"  -> <<TONE>>
      [] v.t = "str"  -> <<QuoteOf(v.s)>>
      [] v.t = "dict" -> <<LB>> \o DumpItems(v.m, 1, TRUE) \o <<RB>>
      [] v.t = "list" -> <<LSQ>> \o DumpElements(v.a, 1) \o <<RSQ>>

\* The items of f whose key is at position k or later of KeyOrder.
DumpItems(f, k, first) ==
    IF k > Len(KeyOrder) THEN <<>>
    ELSE IF KeyOrder[k] \notin DOMAIN f THEN DumpItems(f, k + 1, first)
    ELSE (IF first THEN <<>> ELSE <<COMMA, WS>>)
         \o <<QuoteOf(KeyOrder[k]), COLON, WS>> \o Dumps(f[KeyOrder[k]])
         \o DumpItems(f, k + 1, FALSE)

DumpElements(q, k) ==
    IF k > Len(q) THEN <<>>
    ELSE (IF k = 1 THEN <<>> ELSE <<COMMA, WS>>) \o Dumps(q[k]) \o DumpElements(q, k + 1)

---------------------------------------------------------------------------
(***************************************************************************)
(* agents.py: _run_json_agent                                              *)
(***************************************************************************)
\* What client.chat.completions.create does: raise, or return a response
\* with no choices, with a choice that has no message, or with a content.
Raises(e)    == [kind |-> "raise",      exc |-> e,  content |-> NoContent]
NoChoices    == [kind |-> "no_choices", exc |-> "", content |-> NoContent]
NoMessage    == [kind |-> "no_message", exc |-> "", content |-> NoContent]
Replies(c)   == [kind |-> "ok",         exc |-> "", content |-> c]

ErrRequest(e) == Dict([k \in {"error"} |-> Text("LLM request failed: ", <<e>>)])
ErrShape      == Dict([k \in {"error"} |-> Str("unexpected LLM response format")])
\* {"error": "failed to parse JSON", "raw": content}
ErrParse(content) ==
    Dict([k \in {"error", "raw"} |->
            IF k = "error" THEN Str("failed to parse JSON")
            ELSE IF content.isNone THEN None ELSE Text("", content.toks)])

Returned(v, path) == [ret |-> v, path |-> path]

\* The call ends by an exception that no except clause of the function catches.
Propagated == [ret |-> None, path |-> "raised"]

\* FallbackExtract with the substring parse outside a try block: what
\* content.rfind or the second json.loads raises leaves the function.
FallbackExtractUncaught(content) ==
    IF content.isNone THEN Propagated
    ELSE
        LET idx == RFind(content.toks, LB) IN
        IF idx # 0
        THEN LET r == JsonLoadsText(Suffix(content.toks, idx)) IN
             IF r.ok THEN Returned(r.v, "fallback") ELSE Propagated
        ELSE Returned(None, "fell_through")

\* The except branch of the strict parse (lines 49-57).
FallbackExtract(content) ==
    IF content.isNone
    THEN Returned(ErrParse(content), "fallback_failed")    \* None.rfind raises
    ELSE
        LET idx == RFind(content.toks, LB) IN
        IF idx # 0
        THEN LET r == JsonLoadsText(Suffix(content.toks, idx)) IN
             IF r.ok THEN Returned(r.v, "fallback")
             ELSE Returned(ErrParse(content), "fallback_failed")
        ELSE Returned(None, "fell_through")                \* no return statement is reached

\* ParseReply without the strict parse: the substring search on every reply.
ParseReplySubstringOnly(content) == FallbackExtract(content)

\* The strict parse and its fallback (lines 46-57).
ParseReply(content) ==
    LET r == JsonLoads(content) IN
    IF r.ok THEN Returned(r.v, "strict") ELSE FallbackExtract(content)

\* _run_json_agent on one behaviour of the client: the value returned and
\* the return statement taken.
RunJsonAgent(o) ==
    IF o.kind = "raise" THEN Returned(ErrRequest(o.exc), "request_failed")
    ELSE IF o.kind \in {"no_choices", "no_message"} THEN Returned(ErrShape, "bad_shape")
    ELSE ParseReply(o.content)

\* RequestsIssued with one retry of a request that raised.
RequestsIssuedRetry(o) == IF o.kind = "raise" THEN 2 ELSE 1

\* The completion requests one call of _run_json_agent issues (lines 25-37:
\* one create() call, no loop around it).
RequestsIssued(o) == 1

---------------------------------------------------------------------------
(***************************************************************************)
(* SpecAgent: one call of _run_json_agent.  The initial states are the     *)
(* behaviours of the client: it raises, it returns a response of an        *)
(* unexpected shape, a None content, any text of at most MaxLen tokens, or *)
(* one serialized object with at most MaxJunk tokens of other text on      *)
(* each side.                                                              *)
(***************************************************************************)
MaxLen  == 3
MaxJunk == 1

SeqsUpTo(S, n) == UNION {[1..k -> S] : k \in 0..n}

Alphabet == {LB, RB, LSQ, RSQ, COLON, COMMA, WS, WORD, TNULL, TONE, QA, QB}
JunkTokens == {WORD, WS}
Exceptions == {"timeout", "401"}

ObjKeys == {"a", "b"}
Leaves == {Num(1), None}
DictsOver(V) == UNION {{Dict(f) : f \in [D -> V]} : D \in SUBSET ObjKeys}
FlatObjects   == DictsOver(Leaves)
NestedObjects == DictsOver(Leaves \cup FlatObjects)

Source(mode, exc, text, pre, v, post) ==
    [mode |-> mode, exc |-> exc, text |-> text, pre |-> pre, v |-> v, post |-> post]

Sources ==
    {Source("raise", e, <<>>, <<>>, None, <<>>) : e \in Exceptions}
    \cup {Source(k, "", <<>>, <<>>, None, <<>>) : k \in {"no_choices", "no_message", "none"}}
    \cup {Source("text", "", t, <<>>, None, <<>>) : t \in SeqsUpTo(Alphabet, MaxLen)}
    \cup {Source("embed", "", <<>>, x[1], x[2], x[3]) :
            x \in SeqsUpTo(JunkTokens, MaxJunk) \X NestedObjects \X SeqsUpTo(JunkTokens, MaxJunk)}

\* The client behaviour a source stands for.
OutcomeOf(src) ==
    CASE src.mode = "raise"      -> Raises(src.exc)
      [] src.mode = "no_choices" -> NoChoices
      [] src.mode = "no_message" -> NoMessage
      [] src.mode = "none"       -> Replies(NoContent)
      [] src.mode = "text"       -> Replies(Content(src.text))
      [] src.mode = "embed"      -> Replies(Content(src.pre \o Dumps(src.v) \o src.post))

NoSource == Source("idle", "", <<>>, <<>>, None, <<>>)

AgentIdle ==
    /\ a_pc = "idle"
    /\ a_src = NoSource
    /\ a_outcome = NoChoices
    /\ a_ret = None
    /\ a_path = ""
    /\ a_requests = 0

AppIdle ==
    /\ api_key = "unset"
    /\ posts = <<>>
    /\ interactions = <<>>
    /\ selected = ""
    /\ pc = "off"
    /\ res = <<>>
    /\ log = <<>>
    /\ requests = 0
    /\ view = "none"
    /\ shown = <<>>

GenIdle ==
    /\ g_pc = "idle"
    /\ g_args = <<>>
    /\ g_users = <<>>
    /\ g_posts = <<>>
    /\ g_inter = <<>>
    /\ g_fs = <<>>
    /\ g_loaded = <<>>

AgentInit ==
    /\ a_pc = "ready"
    /\ a_src \in Sources
    /\ a_outcome = OutcomeOf(a_src)
    /\ a_ret = None
    /\ a_path = ""
    /\ a_requests = 0
    /\ AppIdle
    /\ GenIdle

\* result = _run_json_agent(system_prompt, user_content)
AgentCall ==
    /\ a_pc = "ready"
    /\ LET r == RunJsonAgent(a_outcome) IN
        /\ a_ret' = r.ret
        /\ a_path' = r.path
        /\ a_pc' = IF r.path = "raised" THEN "raised" ELSE "returned"
    /\ a_requests' = a_requests + RequestsIssued(a_outcome)
    /\ UNCHANGED <<a_outcome, a_src, appVars, genVars>>

AgentNext == AgentCall

SpecAgent == AgentInit /\ [][AgentNext]_vars

IsErrorObject(v) == HasKey(v, "error")

\* The call recovered no JSON: neither the content nor its part from the
\* last "{" on is valid JSON.
NoJsonRecovered(o) ==
    /\ o.kind = "ok"
    /\ ~JsonLoads(o.content).ok
    /\ \/ o.content.isNone
       \/ RFind(o.content.toks, LB) = 0
       \/ ~JsonLoadsText(Suffix(o.content.toks, RFind(o.content.toks, LB))).ok

\* C1: every failed call (the request raises, the response has no choices
\* or no message, the content is None, or no JSON is recovered from the
\* content, with or without a "{" in it) returns an error object.
C1_FailureReturnsErrorObject ==
    (a_pc = "returned" /\ (a_outcome.kind # "ok" \/ NoJsonRecovered(a_outcome)))
        => IsErrorObject(a_ret)

HasWord(s) == \E i \in 1..Len(s) : s[i] = WORD

\* C2: a content that is one serialized object with other text before
\* and/or after it makes the call return that object.
C2_EmbeddedObjectRecovered ==
    (a_pc = "returned" /\ a_src.mode = "embed" /\ (HasWord(a_src.pre) \/ HasWord(a_src.post)))
        => a_ret = a_src.v

\* C3: a content that is exactly the serialization of an object V makes the
\* call return V from the strict parse, the fallback not entered.
C3_RoundTrip ==
    (a_pc = "returned" /\ a_src.mode = "embed" /\ a_src.pre = <<>> /\ a_src.post = <<>>)
        => (a_ret = a_src.v /\ a_path = "strict")

C3_Witness ==
    /\ a_pc = "returned" /\ a_src.mode = "embed" /\ a_src.pre = <<>> /\ a_src.post = <<>>
    /\ \E k \in DOMAIN a_src.v.m : IsDict(a_src.v.m[k]) /\ a_src.v.m[k].m # EmptyMap
    /\ a_ret = a_src.v
    /\ ~IsErrorObject(a_ret)

\* C12: whenever the reply content is not valid JSON the call returns the
\* empty dict {}.
C12_ParseFailureReturnsEmptyDict ==
    (a_pc = "returned" /\ a_outcome.kind = "ok" /\ ~JsonLoads(a_outcome.content).ok)
        => a_ret = Dict(EmptyMap)

\* The return statements of _run_json_agent, the end of its body included.
ReturnStatements ==
    {"request_failed", "bad_shape", "strict", "fallback", "fallback_failed", "fell_through"}

\* C15: whatever the client does (it raises, it returns a response without
\* choices or message, a None content, text that is no JSON, or JSON of any
\* type) the call ends by returning a value, never by an exception.
C15_NeverPropagates ==
    a_pc # "ready" => (a_pc = "returned" /\ a_path \in ReturnStatements)

C15_Witness ==
    /\ a_pc = "returned"
    /\ a_src.mode = "none"
    /\ a_path = "fallback_failed"
    /\ a_ret = ErrParse(NoContent)

---------------------------------------------------------------------------
(***************************************************************************)
(* app.py: the data main() works on.                                       *)
(***************************************************************************)
MaxPosts == 2
MaxInter == 1

PLACEHOLDER == "YOUR_OPENAI_API_KEY_HERE"

\* os.getenv("OPENAI_API_KEY"): unset, or a string given by its parts.
EnvUnset    == [set |-> FALSE, parts |-> <<>>]
EnvValue(q) == [set |-> TRUE, parts |-> q]
EnvKeys ==
    {EnvUnset, EnvValue(<<>>), EnvValue(<<PLACEHOLDER>>),
     EnvValue(<<"sk-", PLACEHOLDER>>), EnvValue(<<"sk-live">>)}

\* data/users.csv
Users == {"u1", "u2"}
UserRow(u) ==
    [user_id |-> u, age |-> IF u = "u1" THEN 15 ELSE 30, account_type |-> "standard"]

PostIds   == <<"p1", "p2", "p3", "p4">>
PostTexts == <<"Exam went well today.", "Sometimes I just want to disappear.",
               "Got so drunk last night lol.", "Studying hard for JEE.">>
InterIds   == <<"i1", "i2", "i3", "i4">>
InterTexts == <<"Hey, how are your exams going?", "Don't tell anyone we talk here.",
                "We should meet alone sometime.", "Did you finish the homework?">>

\* data/posts.csv: at most MaxPosts rows, each of some user.
PostTables ==
    UNION {{[i \in 1..k |-> [post_id |-> PostIds[i], user_id |-> f[i], text |-> PostTexts[i]]] :
              f \in [1..k -> Users]} : k \in 0..MaxPosts}

\* data/interactions.csv: at most MaxInter rows, each between two users.
InterTables ==
    UNION {{[i \in 1..k |-> [interaction_id |-> InterIds[i], from_user |-> f[i][1],
                             to_user |-> f[i][2], type |-> "dm", text |-> InterTexts[i]]] :
              f \in [1..k -> {<<"u1", "u2">>, <<"u2", "u1">>}]} : k \in 0..MaxInter}

\* user_posts_df = posts[posts["user_id"] == selected_user_id]
UserPosts(tbl, u) == LET Keep(r) == r.user_id = u IN SelectSeq(tbl, Keep)
\* user_interactions_df: the rows the user sent or received
UserInteractions(tbl, u) ==
    LET Keep(r) == r.from_user = u \/ r.to_user = u IN SelectSeq(tbl, Keep)

\* users_age_map.get(u, -1)
AgeOrDefault(u) == IF u \in Users THEN UserRow(u).age ELSE -1

\* posts_payload
PostsPayload(up) == [i \in 1..Len(up) |-> [post_id |-> up[i].post_id, text |-> up[i].text]]
\* inter_payload
InterPayload(ui) ==
    [i \in 1..Len(ui) |->
        [interaction_id |-> ui[i].interaction_id, from_user |-> ui[i].from_user,
         to_user |-> ui[i].to_user, type |-> ui[i].type, text |-> ui[i].text,
         from_age |-> AgeOrDefault(ui[i].from_user), to_age |-> AgeOrDefault(ui[i].to_user)]]

\* DemoMode as "the variable is unset": an empty key counts as configured.
DemoModeUnsetOnly(env) == ~env.set

\* DEMO_MODE = not bool(os.getenv("OPENAI_API_KEY"))
DemoMode(env) == ~(env.set /\ env.parts # <<>>)

\* KeyMissingOrPlaceholder with the placeholder compared for equality
\* (api_key == "YOUR_OPENAI_API_KEY_HERE") instead of searched for.
KeyMissingOrIsPlaceholder(env) ==
    \/ ~env.set
    \/ env.parts = <<>>
    \/ env.parts = <<PLACEHOLDER>>

\* not api_key or "YOUR_OPENAI_API_KEY_HERE" in api_key
KeyMissingOrPlaceholder(env) ==
    \/ ~env.set
    \/ env.parts = <<>>
    \/ \E i \in 1..Len(env.parts) : env.parts[i] = PLACEHOLDER

---------------------------------------------------------------------------
(***************************************************************************)
(* app.py: the canned results of demo mode.                                *)
(***************************************************************************)
Absent == [t |-> "absent", n |-> 0, s |-> "", raw |-> <<>>, m |-> EmptyMap, a |-> <<>>]

Rec2(k1, v1, k2, v2) == Dict([k \in {k1, k2} |-> IF k = k1 THEN v1 ELSE v2])

DemoUnderage ==
    Dict([k \in {"is_minor_suspected", "underage_misrepresentation_risk", "reason"} |->
        CASE k = "is_minor_suspected" -> Bool(TRUE)
          [] k = "underage_misrepresentation_risk" -> Num(72)
          [] k = "reason" ->
               Str("User posts indicate teenage language patterns and age-related topics.")])

DemoOverall ==
    Dict([k \in {"bullying_risk", "self_harm_risk", "sexual_exploitation_risk",
                 "substance_abuse_risk", "summary"} |->
        CASE k = "bullying_risk" -> Str("low")
          [] k = "self_harm_risk" -> Str("low")
          [] k = "sexual_exploitation_risk" -> Str("none")
          [] k = "substance_abuse_risk" -> Str("low")
          [] k = "summary" ->
               Str("Low-to-moderate concerns primarily around substance references and self-harm wording.")])

DemoPerPost(up) ==
    Dict([k \in {"post_id", "text", "bullying_risk", "self_harm_risk",
                 "sexual_exploitation_risk", "substance_abuse_risk", "notes"} |->
        CASE k = "post_id" -> Str(IF up # <<>> THEN up[1].post_id ELSE "p1")
          [] k = "text" -> Str(IF up # <<>> THEN up[1].text ELSE "")
          [] k = "bullying_risk" -> Str("none")
          [] k = "self_harm_risk" -> Str("low")
          [] k = "sexual_exploitation_risk" -> Str("none")
          [] k = "substance_abuse_risk" -> Str("low")
          [] k = "notes" ->
               Str("Some references to substance use and low-level self-harm language.")])

DemoContent(up) == Rec2("per_post", List(<<DemoPerPost(up)>>), "overall", DemoOverall)

DemoEvidence(ui) ==
    Dict([k \in {"interaction_id", "text_snippet", "comment"} |->
        CASE k = "interaction_id" -> Str(IF ui # <<>> THEN ui[1].interaction_id ELSE "i1")
          [] k = "text_snippet" ->
               Str(IF ui # <<>> THEN ui[1].text ELSE "Don't tell anyone we talk here.")
          [] k = "comment" -> Str("Secrecy and older-user behavior detected.")])

DemoInteraction(ui) ==
    Dict([k \in {"grooming_risk", "evidence", "summary"} |->
        CASE k = "grooming_risk" -> Str("medium")
          [] k = "evidence" -> List(<<DemoEvidence(ui)>>)
          [] k = "summary" ->
               Str("Some age-imbalanced conversations and secrecy cues were observed.")])

DemoPolicy ==
    Dict([k \in {"violated_sections", "overall_severity", "recommended_action", "explanation"} |->
        CASE k = "violated_sections" ->
               List(<<Str("Underage Safety"), Str("Substance Use Policy")>>)
          [] k = "overall_severity" -> Str("medium")
          [] k = "recommended_action" -> Str("monitor")
          [] k = "explanation" ->
               Str("Behavior matches medium-risk guidelines; recommend monitoring and a warning if escalates.")])

DemoReport ==
    Dict([k \in {"risk_title", "overall_risk_score", "risk_summary", "markdown_report"} |->
        CASE k = "risk_title" -> Str("SafeScroll Automated Safety Report")
          [] k = "overall_risk_score" -> Num(62)
          [] k = "risk_summary" -> Str("Moderate concerns detected. Monitoring recommended.")
          [] k = "markdown_report" -> Str("### Summary ... ### Evidence ... ### Recommendation ...")])

Results(u, c, i, p, r) ==
    [underage |-> u, content |-> c, interaction |-> i, policy |-> p, report |-> r]

NoResults == Results(Absent, Absent, Absent, Absent, Absent)

\* DemoResults with the underage reason quoting the user's first post.
DemoResultsQuotingPost(up, ui) ==
    Results([DemoUnderage EXCEPT !.m["reason"] = Str(IF up # <<>> THEN up[1].text ELSE "")],
            DemoContent(up), DemoInteraction(ui), DemoPolicy, DemoReport)

\* The five results of the demo branch (lines 297-356).
DemoResults(up, ui) ==
    Results(DemoUnderage, DemoContent(up), DemoInteraction(ui), DemoPolicy, DemoReport)

---------------------------------------------------------------------------
(***************************************************************************)
(* app.py: the results view (lines 393-469).  A page is what each section  *)
(* displays; a section not reached displays nothing (Absent).              *)
(***************************************************************************)
BlankPage ==
    [completed |-> FALSE, underage |-> Absent, content |-> Absent, interaction |-> Absent,
     chart |-> Absent, policy |-> Absent, report |-> Absent, download |-> FALSE]

Rendered(page)  == [view |-> "results",   shown |-> page]
Exception(page) == [view |-> "exception", shown |-> page]

\* key in v: raises (ok FALSE) unless v is a dict, a list or a str.
InTest(key, v) ==
    CASE v.t = "dict" -> [ok |-> TRUE, val |-> key \in DOMAIN v.m]
      [] v.t = "list" -> [ok |-> TRUE, val |-> \E i \in 1..Len(v.a) : v.a[i] = Str(key)]
      [] v.t = "str"  -> [ok |-> TRUE, val |-> v.s = key]
      [] OTHER        -> [ok |-> FALSE, val |-> FALSE]

\* d.get(key, default) of a dict d
Get(d, key, default) == IF key \in DOMAIN d.m THEN d.m[key] ELSE default

\* risk_map.get(level, 0): raises (ok FALSE) on an unhashable level.
RiskMapGet(level) ==
    IF level.t \in {"dict", "list"} THEN [ok |-> FALSE, n |-> 0]
    ELSE [ok |-> TRUE,
          n |-> IF level.t # "str" THEN 0
                ELSE CASE level.s = "none"     -> 0
                       [] level.s = "low"      -> 1
                       [] level.s = "medium"   -> 2
                       [] level.s = "high"     -> 3
                       [] level.s = "critical" -> 4
                       [] OTHER                -> 0]

\* risk_map.get(overall.get(key, "none"), 0): raises unless overall is a dict.
Severity(overall, key) ==
    IF ~IsDict(overall) THEN [ok |-> FALSE, n |-> 0]
    ELSE RiskMapGet(Get(overall, key, Str("none")))

\* The four bars of the chart (lines 415-435).
Chart(overall) ==
    LET b == Severity(overall, "bullying_risk")
        h == Severity(overall, "self_harm_risk")
        x == Severity(overall, "sexual_exploitation_risk")
        u == Severity(overall, "substance_abuse_risk")
    IN  [ok |-> b.ok /\ h.ok /\ x.ok /\ u.ok,
         v  |-> List(<<Num(b.n), Num(h.n), Num(x.n), Num(u.n)>>)]

\* bool(v)
Truthy(v) ==
    CASE v.t = "null" -> FALSE
      [] v.t = "bool" -> v.n = 1
      [] v.t = "num"  -> v.n # 0
      [] v.t = "str"  -> v.s # "" \/ v.raw # <<>>
      [] v.t = "dict" -> v.m # EmptyMap
      [] v.t = "list" -> v.a # <<>>
      [] OTHER        -> FALSE

\* What the Final Safety Report section writes for a dict (lines 444-454).
ReportLines(r) ==
    Dict([k \in {"title", "score", "summary", "markdown"} |->
        CASE k = "title"    -> Get(r, "risk_title", Str("SafeScroll Safety Report"))
          [] k = "score"    -> Get(r, "overall_risk_score", Str("N/A"))
          [] k = "summary"  -> Get(r, "risk_summary", Str(""))
          [] k = "markdown" -> Get(r, "markdown_report", Str(""))])

\* The Final Safety Report section and the download button (lines 442-469).
ReportSection(page, r) ==
    IF ~Truthy(r)
    THEN Rendered([page EXCEPT !.report = Str("No report generated.")])
    ELSE IF ~IsDict(r) THEN Exception(page)                 \* r.get raises
    ELSE LET p == [page EXCEPT !.report = ReportLines(r)] IN
         IF Get(r, "markdown_report", Str("")).t # "str"
         THEN Exception(p)                                  \* str += non-str raises
         ELSE Rendered([p EXCEPT !.download = TRUE])

\* The right column: chart, policy, report (lines 410-469).
RightColumn(page, r, hasOverall) ==
    IF ~hasOverall
    THEN ReportSection(
            [page EXCEPT !.chart = Str("No aggregated content risk data available."),
                         !.policy = r.policy], r.report)
    ELSE LET ch == Chart(r.content.m["overall"]) IN
         IF ~ch.ok THEN Exception(page)
         ELSE ReportSection([page EXCEPT !.chart = ch.v, !.policy = r.policy], r.report)

\* st.success and both columns, in the order the script runs them; an
\* unhandled exception ends the run with the sections rendered so far.
RenderResults(r) ==
    LET p1 == [BlankPage EXCEPT !.completed = TRUE, !.underage = r.underage]
        t  == InTest("overall", r.content)
    IN  IF ~t.ok THEN Exception(p1)
        ELSE IF t.val /\ ~IsDict(r.content) THEN Exception(p1)   \* content_res["overall"] raises
        ELSE RightColumn(
                [p1 EXCEPT !.content = IF t.val THEN r.content.m["overall"] ELSE r.content,
                           !.interaction = r.interaction],
                r, t.val)

---------------------------------------------------------------------------
(***************************************************************************)
(* Spec: the dashboard.  One script run per user interaction; in the real  *)
(* flow the run stops at each agent call until the client answers.         *)
(***************************************************************************)
PoliciesText == "No policies found."

\* Replies of the hosted model used in the audit.
OverallReply ==
    <<LB, QOVERALL, COLON, WS, LB, QBULLY, COLON, WS, QHIGH, RB, RB>>
PlainReply == <<LB, QTITLE, COLON, WS, QA, RB>>

\* What the client does in one call of the audit.
AppOutcomes ==
    {Raises("timeout"), NoChoices, Replies(Content(<<WORD>>)), Replies(Content(<<LB, WORD>>)),
     Replies(Content(OverallReply)), Replies(Content(PlainReply))}

Init ==
    /\ api_key \in EnvKeys
    /\ posts \in PostTables
    /\ interactions \in InterTables
    /\ selected = "u1"
    /\ pc = "idle"
    /\ res = NoResults
    /\ log = <<>>
    /\ requests = 0
    /\ view = "none"
    /\ shown = BlankPage
    /\ AgentIdle
    /\ GenIdle

\* The operator picks another user: the script reruns with the button not clicked.
SelectUser(u) ==
    /\ pc = "idle"
    /\ u # selected
    /\ selected' = u
    /\ res' = NoResults
    /\ log' = <<>>
    /\ requests' = 0
    /\ view' = "none"
    /\ shown' = BlankPage
    /\ UNCHANGED <<api_key, posts, interactions, pc, agentVars, genVars>>

\* The operator clicks "Run Multi-Agent Safety Audit" (lines 295-376).
ClickAudit ==
    /\ pc = "idle"
    /\ log' = <<>>
    /\ requests' = 0
    /\ IF DemoMode(api_key)
       THEN LET r == DemoResults(UserPosts(posts, selected),
                                 UserInteractions(interactions, selected))
                page == RenderResults(r)
            IN  /\ res' = r
                /\ view' = page.view
                /\ shown' = page.shown
                /\ pc' = "idle"
       ELSE IF KeyMissingOrPlaceholder(api_key)
       THEN /\ res' = NoResults
            /\ view' = "config_error"
            /\ shown' = BlankPage
            /\ pc' = "idle"
       ELSE /\ res' = NoResults
            /\ view' = "none"
            /\ shown' = BlankPage
            /\ pc' = "underage"
    /\ UNCHANGED <<api_key, posts, interactions, selected, agentVars, genVars>>

Invocation(agent, args) == [agent |-> agent, args |-> args]

\* underage_res = underage_risk_agent(user_row, posts_payload)
CallUnderage ==
    /\ pc = "underage"
    /\ \E o \in AppOutcomes :
        /\ res' = [res EXCEPT !.underage = RunJsonAgent(o).ret]
        /\ requests' = requests + RequestsIssued(o)
    /\ log' = Append(log, Invocation("underage",
                [user_profile |-> UserRow(selected),
                 posts |-> PostsPayload(UserPosts(posts, selected))]))
    /\ pc' = "content"
    /\ UNCHANGED <<api_key, posts, interactions, selected, view, shown, agentVars, genVars>>

\* content_res = content_risk_agent(posts_payload)
CallContent ==
    /\ pc = "content"
    /\ \E o \in AppOutcomes :
        /\ res' = [res EXCEPT !.content = RunJsonAgent(o).ret]
        /\ requests' = requests + RequestsIssued(o)
    /\ log' = Append(log, Invocation("content",
                [posts |-> PostsPayload(UserPosts(posts, selected))]))
    /\ pc' = "interaction"
    /\ UNCHANGED <<api_key, posts, interactions, selected, view, shown, agentVars, genVars>>

\* interaction_res = interaction_risk_agent(user_row, inter_payload)
CallInteraction ==
    /\ pc = "interaction"
    /\ \E o \in AppOutcomes :
        /\ res' = [res EXCEPT !.interaction = RunJsonAgent(o).ret]
        /\ requests' = requests + RequestsIssued(o)
    /\ log' = Append(log, Invocation("interaction",
                [user_profile |-> UserRow(selected),
                 interactions |-> InterPayload(UserInteractions(interactions, selected))]))
    /\ pc' = "policy"
    /\ UNCHANGED <<api_key, posts, interactions, selected, view, shown, agentVars, genVars>>

\* AggregatedFindings with the content result left out.
AggregatedFindingsNoContent(r) ==
    [underage |-> r.underage, content |-> Absent, interactions |-> r.interaction]

\* aggregated_findings (lines 382-386)
AggregatedFindings(r) ==
    [underage |-> r.underage, content |-> r.content, interactions |-> r.interaction]

\* policy_res = policy_violation_agent(policies_text, aggregated_findings)
CallPolicy ==
    /\ pc = "policy"
    /\ \E o \in AppOutcomes :
        /\ res' = [res EXCEPT !.policy = RunJsonAgent(o).ret]
        /\ requests' = requests + RequestsIssued(o)
    /\ log' = Append(log, Invocation("policy",
                [policies |-> PoliciesText, findings |-> AggregatedFindings(res)]))
    /\ pc' = "report"
    /\ UNCHANGED <<api_key, posts, interactions, selected, view, shown, agentVars, genVars>>

\* report_res = report_generator_agent(...), then the results view.
CallReport ==
    /\ pc = "report"
    /\ \E o \in AppOutcomes :
        LET r    == [res EXCEPT !.report = RunJsonAgent(o).ret]
            page == RenderResults(r)
        IN  /\ res' = r
            /\ requests' = requests + RequestsIssued(o)
            /\ view' = page.view
            /\ shown' = page.shown
    /\ log' = Append(log, Invocation("report",
                [user_profile |-> UserRow(selected), underage |-> res.underage,
                 content |-> res.content, interactions |-> res.interaction,
                 policy_result |-> res.policy]))
    /\ pc' = "idle"
    /\ UNCHANGED <<api_key, posts, interactions, selected, agentVars, genVars>>

Next ==
    \/ \E u \in Users : SelectUser(u)
    \/ ClickAudit
    \/ CallUnderage
    \/ CallContent
    \/ CallInteraction
    \/ CallPolicy
    \/ CallReport

Spec == Init /\ [][Next]_vars

---------------------------------------------------------------------------
(***************************************************************************)
(* Properties of the dashboard.                                            *)
(***************************************************************************)
\* OPENAI_API_KEY is unset or empty.
KeyUnsetOrEmpty == ~api_key.set \/ api_key.parts = <<>>

\* OPENAI_API_KEY is set, not empty and holds no placeholder.
KeyConfigured ==
    /\ api_key.set
    /\ api_key.parts # <<>>
    /\ \A i \in 1..Len(api_key.parts) : api_key.parts[i] # PLACEHOLDER

AgentOrder == <<"underage", "content", "interaction", "policy", "report">>

ResultOf(r, agent) ==
    CASE agent = "underage"    -> r.underage
      [] agent = "content"     -> r.content
      [] agent = "interaction" -> r.interaction
      [] agent = "policy"      -> r.policy
      [] agent = "report"      -> r.report

\* C4: with the key unset or empty no step ever invokes an agent or issues
\* a completion request, and every click on the audit button ends in the
\* results view.
C4_DemoModeCallsNothing ==
    [][KeyUnsetOrEmpty =>
        /\ log' = <<>>
        /\ requests' = 0
        /\ pc' = "idle"
        /\ (ClickAudit => (view' = "results" /\ shown'.completed))]_vars

C4_Witness ==
    /\ KeyUnsetOrEmpty
    /\ view = "results"
    /\ shown.completed
    /\ shown.report # Absent
    /\ log = <<>>
    /\ requests = 0

\* C5 as stated: in demo mode the five results shown are the same values
\* whatever the selected user and the tables hold.  (With empty tables the
\* page below is shown, so it is the only value they could all equal.)
C5_DemoResultsFixed ==
    (KeyUnsetOrEmpty /\ view = "results") => shown = RenderResults(DemoResults(<<>>, <<>>)).shown

\* r with the four fields that echo the tables overwritten by x.
Masked(r, x) ==
    [r EXCEPT
        !.content.m["per_post"].a[1].m["post_id"] = x,
        !.content.m["per_post"].a[1].m["text"] = x,
        !.interaction.m["evidence"].a[1].m["interaction_id"] = x,
        !.interaction.m["evidence"].a[1].m["text_snippet"] = x]

\* C5 amended: in demo mode the results are fixed but for four fields:
\* per_post[0].post_id and .text are those of the selected user's first
\* post ("p1" and "" when the user has none), evidence[0].interaction_id
\* and .text_snippet those of the user's first interaction ("i1" and a
\* fixed sentence when there is none).  The underage, aggregated content,
\* policy and report sections shown are the same for every user and table.
C5_DemoResultsFixedButEchoes ==
    (KeyUnsetOrEmpty /\ view = "results") =>
        LET up == UserPosts(posts, selected)
            ui == UserInteractions(interactions, selected)
            pp == res.content.m["per_post"].a[1].m
            ev == res.interaction.m["evidence"].a[1].m
            fixed == DemoResults(<<>>, <<>>)
            page  == RenderResults(fixed).shown
        IN  /\ Masked(res, Str("")) = Masked(fixed, Str(""))
            /\ res.underage.m["underage_misrepresentation_risk"] = Num(72)
            /\ res.policy.m["recommended_action"] = Str("monitor")
            /\ res.report.m["overall_risk_score"] = Num(62)
            /\ shown.content.m["self_harm_risk"] = Str("low")
            /\ shown.chart = List(<<Num(1), Num(1), Num(0), Num(1)>>)
            /\ pp["post_id"] = Str(IF up = <<>> THEN "p1" ELSE up[1].post_id)
            /\ pp["text"] = Str(IF up = <<>> THEN "" ELSE up[1].text)
            /\ ev["interaction_id"] = Str(IF ui = <<>> THEN "i1" ELSE ui[1].interaction_id)
            /\ ev["text_snippet"] =
                  Str(IF ui = <<>> THEN "Don't tell anyone we talk here." ELSE ui[1].text)
            /\ shown.underage = page.underage
            /\ shown.content = page.content
            /\ shown.chart = page.chart
            /\ shown.policy = page.policy
            /\ shown.report = page.report
            /\ shown.interaction = res.interaction

C5_Witness ==
    /\ KeyUnsetOrEmpty
    /\ view = "results"
    /\ selected = "u2"
    /\ UserPosts(posts, selected) # <<>>
    /\ UserInteractions(interactions, selected) # <<>>
    /\ res.content.m["per_post"].a[1].m["text"] # Str("")

\* C6: in the real flow the agents are invoked in the order underage,
\* content, interaction, policy, report, each once and each after the
\* previous one returned; the policy agent receives the results of the
\* first three, the report agent those three and the policy result; a run
\* that ended invoked all five.
C6_AgentsInSequence ==
    KeyConfigured =>
        /\ Len(log) <= 5
        /\ \A i \in 1..Len(log) :
            /\ log[i].agent = AgentOrder[i]
            /\ ResultOf(res, AgentOrder[i]) # Absent
        /\ \A i \in (Len(log) + 1)..5 : ResultOf(res, AgentOrder[i]) = Absent
        /\ (pc # "idle" => pc = AgentOrder[Len(log) + 1])
        /\ (pc = "idle" => Len(log) \in {0, 5})
        /\ (Len(log) >= 4 =>
                log[4].args.findings =
                    [underage |-> res.underage, content |-> res.content,
                     interactions |-> res.interaction])
        /\ (Len(log) = 5 =>
                /\ log[5].args.underage = res.underage
                /\ log[5].args.content = res.content
                /\ log[5].args.interactions = res.interaction
                /\ log[5].args.policy_result = res.policy)

C6_Witness ==
    /\ KeyConfigured
    /\ pc = "idle"
    /\ Len(log) = 5
    /\ view = "results"
    /\ res.underage # res.content
    /\ res.content # res.interaction
    /\ IsErrorObject(res.policy)

\* C7: every invocation of an agent issues exactly one completion request
\* whatever the client does, so a run issues as many requests as it made
\* invocations and never more than five.
C7_OneRequestPerInvocation ==
    /\ requests = Len(log)
    /\ requests <= 5

C7_Witness ==
    /\ requests = 5
    /\ res.underage = ErrRequest("timeout")
    /\ res.content = ErrShape
    /\ res.interaction = ErrParse(Content(<<LB, WORD>>))
    /\ res.policy = None

\* C8: in the results view, the section of every agent that returned an
\* error object displays that error object or its "error" message.
C8_ErrorsSurfaced ==
    (KeyConfigured /\ view = "results") =>
        /\ IsErrorObject(res.underage) => shown.underage = res.underage
        /\ IsErrorObject(res.content) => shown.content = res.content
        /\ IsErrorObject(res.interaction) => shown.interaction = res.interaction
        /\ IsErrorObject(res.policy) => shown.policy = res.policy
        /\ IsErrorObject(res.report) =>
              \/ shown.report = res.report
              \/ \E k \in DOMAIN shown.report.m : shown.report.m[k] = res.report.m["error"]

\* C10: in the real flow a run that invoked an agent invokes all five and
\* ends in the results view with the underage, content, interaction, chart,
\* policy and report sections rendered, whatever failed.
C10_AuditAlwaysCompletes ==
    (KeyConfigured /\ pc = "idle" /\ log # <<>>) =>
        /\ Len(log) = 5
        /\ view = "results"
        /\ shown.completed
        /\ \A x \in {shown.underage, shown.content, shown.interaction,
                     shown.chart, shown.policy, shown.report} : x # Absent

\* A click ran to the end of its script run with results to show.
RunEnded == pc = "idle" /\ res # NoResults

\* The severity the claim gives a level: none, low, medium, high, critical
\* are 0..4, a missing level and any other string are 0.
LevelSeverity(overall, key) ==
    IF key \notin DOMAIN overall.m THEN 0
    ELSE LET level == overall.m[key].s IN
         CASE level = "low"      -> 1
           [] level = "medium"   -> 2
           [] level = "high"     -> 3
           [] level = "critical" -> 4
           [] OTHER              -> 0

ChartedKeys ==
    <<"bullying_risk", "self_harm_risk", "sexual_exploitation_risk", "substance_abuse_risk">>

\* C13: after a run, a content result with an "overall" object is charted
\* as four integers in 0..4, the severities of its four levels; a content
\* result without an "overall" key shows the 'no aggregated data' message
\* in place of the chart.
C13_ChartSeverities ==
    RunEnded =>
        /\ (HasKey(res.content, "overall") /\ IsDict(res.content.m["overall"])) =>
              /\ shown.chart =
                    List([i \in 1..4 |-> Num(LevelSeverity(res.content.m["overall"], ChartedKeys[i]))])
              /\ \A i \in 1..4 : shown.chart.a[i].n \in 0..4
        /\ ~HasKey(res.content, "overall") =>
              shown.chart = Str("No aggregated content risk data available.")

\* OPENAI_API_KEY is set and holds the placeholder somewhere in its value.
KeyHoldsPlaceholder ==
    /\ api_key.set
    /\ \E i \in 1..Len(api_key.parts) : api_key.parts[i] = PLACEHOLDER

\* C11: with a key that contains YOUR_OPENAI_API_KEY_HERE no step invokes an
\* agent, issues a request or renders a result or the 'completed' message,
\* and every click on the audit button ends in the configuration error.
C11_PlaceholderKeyStopsAudit ==
    [][KeyHoldsPlaceholder =>
        /\ log' = <<>>
        /\ requests' = 0
        /\ pc' = "idle"
        /\ res' = NoResults
        /\ shown' = BlankPage
        /\ view' \in {"none", "config_error"}
        /\ (ClickAudit => view' = "config_error")]_vars

C11_Witness ==
    /\ api_key = EnvValue(<<"sk-", PLACEHOLDER>>)
    /\ view = "config_error"
    /\ pc = "idle"
    /\ log = <<>>
    /\ requests = 0
    /\ shown = BlankPage

---------------------------------------------------------------------------
(***************************************************************************)
(* generate_synthetic_data.py: SpecGen, one run of main().  The free text, *)
(* account type and time stamp columns are drawn independently of the ids  *)
(* and ages and are left out of the rows.                                  *)
(***************************************************************************)
MaxUsers        == 3
MaxPostsPerUser == 2
MaxInteractions == 2

\* f"u{i}", f"p{i}", f"i{i}"
Id(prefix, i) == [prefix |-> prefix, num |-> i]

\* Ages random.choice draws from (of the list 13, 14, 15, 16, 17, 18, 21, 25, 30).
Ages == {13, 18, 30}

\* generate_users(n): the rows for one draw of the ages.
UsersFrame(n, ages) == [i \in 1..n |-> [user_id |-> Id("u", i), age |-> ages[i]]]

RECURSIVE PostRowsFrom(_, _, _)
\* The rows generate_posts appends from the post numbered k on: user
\* (k-1) \div ppu + 1 owns post k.
PostRowsFrom(users, ppu, k) ==
    IF k > Len(users) * ppu THEN <<>>
    ELSE <<[post_id |-> Id("p", k), user_id |-> users[((k - 1) \div ppu) + 1].user_id]>>
         \o PostRowsFrom(users, ppu, k + 1)

\* PostsFrame with the owner written from the post counter, f"u{post_id}".
PostsFrameOwnerByPostNumber(users, ppu) ==
    [k \in 1..(Len(users) * ppu) |-> [post_id |-> Id("p", k), user_id |-> Id("u", k)]]

\* generate_posts(users_df, posts_per_user)
PostsFrame(users, ppu) == IF ppu = 0 THEN <<>> ELSE PostRowsFrom(users, ppu, 1)

\* user_ids = users_df["user_id"].tolist()
UserIdList(users) == [i \in 1..Len(users) |-> users[i].user_id]

\* ages = dict(zip(users_df["user_id"], users_df["age"]))
AgeMap(users, uid) == users[CHOOSE i \in 1..Len(users) : users[i].user_id = uid].age

\* SamplePairs drawing with replacement (random.choices(user_ids, k=2)).
SamplePairsWithReplacement(n) == (1..n) \X (1..n)

\* random.sample(user_ids, 2): two positions of the list, distinct.
SamplePairs(n) == {x \in (1..n) \X (1..n) : x[1] # x[2]}

\* One row of generate_interactions: interaction i for the sample (u1, u2).
InteractionRow(users, i, u1, u2) ==
    LET a1 == AgeMap(users, u1)
        a2 == AgeMap(users, u2)
        older   == IF a1 > a2 THEN u1 ELSE u2
        younger == IF a1 > a2 THEN u2 ELSE u1
    IN  [interaction_id |-> Id("i", i), from_user |-> older, to_user |-> younger, type |-> "dm"]

\* generate_interactions on the ids of user_ids, for one draw of the samples.
InteractionsFrame(users, ids, k, samples) ==
    [i \in 1..k |-> InteractionRow(users, i, ids[samples[i][1]], ids[samples[i][2]])]

\* data_dir / name
PathOf(dir, name) == dir \o "/" \o name

\* --out-dir and --prefix: the defaults of parse_args, or other values.
DefaultOutDir == "data"
DefaultPrefix == "safescroll"
OutputOptions ==
    {[out_dir |-> DefaultOutDir, prefix |-> DefaultPrefix],
     [out_dir |-> DefaultOutDir, prefix |-> ""],
     [out_dir |-> "out", prefix |-> DefaultPrefix]}

\* DataFrame.to_csv(path, index=False): the header line names the columns
\* (a frame built from no rows has none), then one line per row.
ToCsv(frame) ==
    [columns |-> IF frame = <<>> THEN {} ELSE DOMAIN frame[1], rows |-> frame]

\* pd.read_csv(path): raises (ok FALSE) when the file is missing
\* (FileNotFoundError) or has no columns (EmptyDataError).
ReadCsv(fs, path) ==
    IF path \notin DOMAIN fs THEN [ok |-> FALSE, rows |-> <<>>]
    ELSE IF fs[path].columns = {} THEN [ok |-> FALSE, rows |-> <<>>]
    ELSE [ok |-> TRUE, rows |-> fs[path].rows]

\* The file names save_data writes into data_dir.
SavedNames(prefix) ==
    [users        |-> prefix \o "_users.csv",
     posts        |-> prefix \o "_posts.csv",
     interactions |-> prefix \o "_interactions.csv"]

\* The paths load_data opens.
LoadPaths ==
    [users        |-> PathOf("data", "users.csv"),
     posts        |-> PathOf("data", "posts.csv"),
     interactions |-> PathOf("data", "interactions.csv")]

\* The disk before the generator runs: no CSV file, or the dashboard's three
\* files left by an earlier hand (one user, one post, one interaction).
NoFiles == [p \in {} |-> ToCsv(<<>>)]
EarlierFiles ==
    [p \in {LoadPaths.users, LoadPaths.posts, LoadPaths.interactions} |->
        IF p = LoadPaths.users THEN ToCsv(<<[user_id |-> Id("u", 0), age |-> 13]>>)
        ELSE IF p = LoadPaths.posts
        THEN ToCsv(<<[post_id |-> Id("p", 0), user_id |-> Id("u", 0)]>>)
        ELSE ToCsv(<<[interaction_id |-> Id("i", 0), from_user |-> Id("u", 0),
                      to_user |-> Id("u", 0), type |-> "dm"]>>)]

NotLoaded == [state |-> "not_loaded", users |-> <<>>, posts |-> <<>>, interactions |-> <<>>]
LoadFailed == [state |-> "exception", users |-> <<>>, posts |-> <<>>, interactions |-> <<>>]
Loaded(u, p, i) == [state |-> "loaded", users |-> u, posts |-> p, interactions |-> i]

GenInit ==
    /\ g_pc = "start"
    /\ \E n \in [users : 0..MaxUsers, posts_per_user : 0..MaxPostsPerUser,
                  interactions : 0..MaxInteractions], o \in OutputOptions :
          g_args = [users |-> n.users, posts_per_user |-> n.posts_per_user,
                    interactions |-> n.interactions,
                    out_dir |-> o.out_dir, prefix |-> o.prefix]
    /\ g_users = <<>>
    /\ g_posts = <<>>
    /\ g_inter = <<>>
    /\ g_fs \in {NoFiles, EarlierFiles}
    /\ g_loaded = NotLoaded
    /\ AgentIdle
    /\ AppIdle

\* users = generate_users(args.users)
GenerateUsers ==
    /\ g_pc = "start"
    /\ \E ages \in [1..g_args.users -> Ages] : g_users' = UsersFrame(g_args.users, ages)
    /\ g_pc' = "users"
    /\ UNCHANGED <<g_args, g_posts, g_inter, g_fs, g_loaded, agentVars, appVars>>

\* posts = generate_posts(users, posts_per_user=args.posts_per_user)
GeneratePosts ==
    /\ g_pc = "users"
    /\ g_posts' = PostsFrame(g_users, g_args.posts_per_user)
    /\ g_pc' = "posts"
    /\ UNCHANGED <<g_args, g_users, g_inter, g_fs, g_loaded, agentVars, appVars>>

\* interactions = generate_interactions(users, n_interactions=args.interactions);
\* random.sample raises ValueError when fewer than two users exist.
GenerateInteractions ==
    /\ g_pc = "posts"
    /\ IF g_args.interactions > 0 /\ Len(g_users) < 2
       THEN /\ g_pc' = "exception"
            /\ g_inter' = <<>>
       ELSE /\ \E samples \in [1..g_args.interactions -> SamplePairs(Len(g_users))] :
                 g_inter' = InteractionsFrame(g_users, UserIdList(g_users),
                                              g_args.interactions, samples)
            /\ g_pc' = "done"
    /\ UNCHANGED <<g_args, g_users, g_posts, g_fs, g_loaded, agentVars, appVars>>

\* save_data(data_dir, prefix, users, posts, interactions): the disk after
\* the three to_csv calls (a file already at a path is overwritten).
WriteFiles(fs, dir, prefix, users, psts, inter) ==
    LET pu == PathOf(dir, SavedNames(prefix).users)
        pp == PathOf(dir, SavedNames(prefix).posts)
        pi == PathOf(dir, SavedNames(prefix).interactions)
    IN  [p \in (DOMAIN fs) \cup {pu, pp, pi} |->
            IF p = pu THEN ToCsv(users)
            ELSE IF p = pp THEN ToCsv(psts)
            ELSE IF p = pi THEN ToCsv(inter)
            ELSE fs[p]]

\* save_data(data_dir, args.prefix, users, posts, interactions)
SaveData ==
    /\ g_pc = "done"
    /\ g_fs' = WriteFiles(g_fs, g_args.out_dir, g_args.prefix, g_users, g_posts, g_inter)
    /\ g_pc' = "saved"
    /\ UNCHANGED <<g_args, g_users, g_posts, g_inter, g_loaded, agentVars, appVars>>

\* The dashboard starts on the disk the generator left:
\* users, posts, interactions = load_data()
LoadData ==
    /\ g_pc = "saved"
    /\ LET u == ReadCsv(g_fs, LoadPaths.users)
           p == ReadCsv(g_fs, LoadPaths.posts)
           i == ReadCsv(g_fs, LoadPaths.interactions)
       IN  g_loaded' = IF u.ok /\ p.ok /\ i.ok THEN Loaded(u.rows, p.rows, i.rows)
                       ELSE LoadFailed
    /\ g_pc' = "loaded"
    /\ UNCHANGED <<g_args, g_users, g_posts, g_inter, g_fs, agentVars, appVars>>

GenNext ==
    \/ GenerateUsers
    \/ GeneratePosts
    \/ GenerateInteractions
    \/ SaveData
    \/ LoadData

SpecGen == GenInit /\ [][GenNext]_vars

GenUserIds == {g_users[i].user_id : i \in 1..Len(g_users)}

\* C9: with two users or more, every post's user_id and every
\* interaction's from_user and to_user is a user_id of the users table.
C9_ReferentialIds ==
    g_args.users >= 2 =>
        /\ \A i \in 1..Len(g_posts) : g_posts[i].user_id \in GenUserIds
        /\ \A i \in 1..Len(g_inter) :
            /\ g_inter[i].from_user \in GenUserIds
            /\ g_inter[i].to_user \in GenUserIds
        /\ (g_pc \in {"posts", "done"} =>
                Len(g_posts) = g_args.users * g_args.posts_per_user)
        /\ (g_pc = "done" => Len(g_inter) = g_args.interactions)

C9_Witness ==
    /\ g_pc = "done"
    /\ g_args.users >= 3
    /\ Len(g_posts) >= 4
    /\ Len(g_inter) = 2
    /\ g_inter[1].from_user # g_inter[2].from_user
    /\ \E i \in 1..Len(g_posts) : g_posts[i].user_id = Id("u", 3)

\* The run used the default --out-dir and --prefix and made rows for every
\* table, as the default 20 users, 5 posts per user and 60 interactions do.
DefaultRun ==
    /\ g_args.out_dir = DefaultOutDir
    /\ g_args.prefix = DefaultPrefix
    /\ g_args.users >= 2
    /\ g_args.posts_per_user >= 1
    /\ g_args.interactions >= 1

\* The paths save_data wrote in this run.
WrittenPaths ==
    {PathOf(g_args.out_dir, SavedNames(g_args.prefix).users),
     PathOf(g_args.out_dir, SavedNames(g_args.prefix).posts),
     PathOf(g_args.out_dir, SavedNames(g_args.prefix).interactions)}

\* C14: after a default run of the generator the files it wrote are the
\* files load_data opens, and load_data returns the generated users, posts
\* and interactions.
C14_GeneratorFeedsDashboard ==
    (g_pc = "loaded" /\ DefaultRun) =>
        /\ WrittenPaths = {LoadPaths.users, LoadPaths.posts, LoadPaths.interactions}
        /\ g_loaded = Loaded(g_users, g_posts, g_inter)

\* The declared age of a generated user.
GenAge(uid) == AgeMap(g_users, uid)

\* C16: the interactions generated are N rows with the ids i1..iN in order
\* (so no id twice), each between two different users, sent by the one
\* whose age is greater than or equal to the receiver's.
C16_OlderToYounger ==
    g_pc = "done" =>
        /\ Len(g_inter) = g_args.interactions
        /\ \A i \in 1..Len(g_inter) :
            /\ g_inter[i].interaction_id = Id("i", i)
            /\ g_inter[i].from_user # g_inter[i].to_user
            /\ GenAge(g_inter[i].from_user) >= GenAge(g_inter[i].to_user)
        /\ \A i, j \in 1..Len(g_inter) :
            i # j => g_inter[i].interaction_id # g_inter[j].interaction_id

C16_Witness ==
    /\ g_pc = "done"
    /\ Len(g_inter) = 2
    /\ GenAge(g_inter[1].from_user) > GenAge(g_inter[1].to_user)
    /\ g_inter[1].from_user.num > g_inter[1].to_user.num
    /\ GenAge(g_inter[2].from_user) = GenAge(g_inter[2].to_user)
    /\ g_inter[2].interaction_id = Id("i", 2)

====
